---------------------------- MODULE Spec2Model ----------------------------
(***************************************************************************)
(* Model of app_standalone.py: the synthetic education dataset generator   *)
(* (generate_all_data) and the page functions that read its tables.        *)
(*                                                                         *)
(* Numbers.  The code computes in Python floats (IEEE 754 doubles) and     *)
(* converts with int() and round().  A decimal quantity is kept as an      *)
(* integer number of units:                                                *)
(*   - probabilities given with two decimals in hundredths (poverty_rate   *)
(*     0.24 is 24), three decimals in thousandths;                         *)
(*   - a field rounded to n decimals as the integer value * 10^n           *)
(*     (Enrollment_Rate 0.93 is 930, Average_Score 60.41 is 6041,          *)
(*     Teacher_Student_Ratio 0.0317 is 317).                               *)
(* int() and round() are taken of the double the code computes: the        *)
(* doubles and their operations are defined below, each rounding to the    *)
(* nearest double as the hardware does.                                    *)
(*                                                                         *)
(* Random draws.  np.random.uniform(a, b) is a + (b - a) * u for a draw u  *)
(* of [0, 1); np.random.choice(opts, p) picks by the cumulative weights    *)
(* the first option whose cumulative weight exceeds such a draw u;         *)
(* np.random.normal(0, s) is s * z for a standard normal draw z.  A draw u *)
(* is given by its level k in 0..Grid, u = k / Grid (level Grid stands for *)
(* the supremum of the draws), a draw z by an integer number of standard   *)
(* deviations.  The draws of a row are independent of one another.         *)
(*                                                                         *)
(* Rows.  Where the loops of generate_all_data are walked through under    *)
(* the pages (Spec, SpecConfig), a row is its dimension fields and the     *)
(* state of the stream its draws are taken from.  The values of the fields *)
(* are those of SpecRows: one loop step, at any position of the loops,     *)
(* with every combination of the levels of its draws.  In SpecTwoRuns two  *)
(* processes take steps of the loops, each computing the fields of its     *)
(* rows from the draws its own stream gives it.                            *)
(***************************************************************************)
EXTENDS Integers, Sequences, FiniteSets, TLC

\* Levels of a uniform draw: u = k / Grid, k \in 0..Grid.
Grid == 2
\* Normal draws are enumerated at -MaxSigma, 0 and +MaxSigma standard deviations.
MaxSigma == 3
\* Number of user interactions (script reruns after the first) explored.
MaxEvents == 3
\* Largest table whose pages are walked through.
MaxRows == 50
\* Largest page number typed into a number input.
MaxTyped == 8
\* Schools of each type, per city and year, whose rows are built with every draw.
MaxSchools == 2
\* Loop steps of each of two processes that a behaviour of the two runs follows.
MaxSteps == 1

VARIABLES
    pc,            \* "boot": script never run; "gen": inside generate_all_data; "ui": page rendered
    cache,         \* the st.cache_data entry of generate_all_data
    numBarangays,  \* the num_barangays lookup table of the poverty loop
    rng,           \* the np.random stream: [src |-> seed or entropy id, n |-> draws consumed]
    pos,           \* loop position inside generate_all_data
    row,           \* the row appended by the last loop step: its dimension fields and
                   \* the stream state its draws start at; in SpecRows and
                   \* SpecTwoRuns, all its fields
    drw,           \* SpecRows: the levels of the draws that gave row
    cnt,           \* the tables of the running script: rows of each table per city and year
    grp,           \* inner keys of the rows of the current (table, city, year) group
    genRuns,       \* executions of the body of generate_all_data
    seedCalls,     \* calls of np.random.seed
    page,          \* sidebar radio
    dashCity,      \* sidebar city selectbox (City Dashboards)
    selCity,       \* "Filter by City" selectbox
    selYear,       \* "Filter by Year" selectbox
    page_numbers,  \* st.session_state.page_numbers
    view,          \* what the last render displayed
    events,        \* user interactions so far
    pc2, rng2, pos2, row2, cnt2, cache2,  \* a second run of the generator (another
                   \* process)
    stream,        \* the draws of the np.random streams met so far: the draw at
                   \* <<source, number>>
    steps,         \* the loop steps the first and the second process have taken
    tableRows,     \* rows of the table whose pages are requested one after the other
    pageNum,       \* the page number of the last paginate_dataframe call, 0 before the first
    slice,         \* what that call returned
    seen           \* the row positions of the slices returned so far, in the order returned

vars == <<pc, cache, numBarangays, rng, pos, row, drw, cnt, grp, genRuns, seedCalls,
          page, dashCity, selCity, selYear, page_numbers, view, events, pc2, rng2, pos2, row2,
          cnt2, cache2, stream, steps, tableRows, pageNum, slice, seen>>

-----------------------------------------------------------------------------
(* Constant tables of generate_all_data *)

CityNames == <<"General Santos", "Tacurong", "Isulan", "Koronadal", "Kidapawan">>

\* poverty_rate in hundredths
CITIES ==
    "General Santos" :> [population |-> 697315, schools_public |-> 245, schools_private |-> 89,
                         base_enrollment |-> 185000, poverty_rate |-> 24] @@
    "Tacurong" :> [population |-> 109319, schools_public |-> 78, schools_private |-> 23,
                   base_enrollment |-> 28000, poverty_rate |-> 31] @@
    "Isulan" :> [population |-> 97490, schools_public |-> 65, schools_private |-> 18,
                 base_enrollment |-> 24000, poverty_rate |-> 29] @@
    "Koronadal" :> [population |-> 184573, schools_public |-> 142, schools_private |-> 54,
                    base_enrollment |-> 48000, poverty_rate |-> 26] @@
    "Kidapawan" :> [population |-> 160791, schools_public |-> 128, schools_private |-> 41,
                    base_enrollment |-> 42000, poverty_rate |-> 28]

FirstYear == 2015
LastYear == 2024
YEARS == FirstYear..LastYear
MONTHS == 1..12
QUARTERS == <<"Q1", "Q2", "Q3", "Q4">>
SCHOOL_TYPES == <<"Public", "Private">>
GRADE_LEVELS == <<"Grade 1", "Grade 2", "Grade 3", "Grade 4", "Grade 5", "Grade 6",
                  "Grade 7", "Grade 8", "Grade 9", "Grade 10", "Grade 11", "Grade 12">>

tracks == <<"STEM", "ABM", "HUMSS", "TVL", "GAS">>
track_dist == "STEM" :> 22 @@ "ABM" :> 18 @@ "HUMSS" :> 25 @@ "TVL" :> 20 @@ "GAS" :> 15

age_groups == <<"6-11", "12-15", "16-18", "19-24">>
age_dist == "6-11" :> 15 @@ "12-15" :> 28 @@ "16-18" :> 35 @@ "19-24" :> 22
reasons == <<"Financial", "Family_Obligations", "Distance", "Lack_Interest", "Health",
             "Marriage", "Work">>
reason_dist == "Financial" :> 35 @@ "Family_Obligations" :> 20 @@ "Distance" :> 12 @@
               "Lack_Interest" :> 15 @@ "Health" :> 8 @@ "Marriage" :> 5 @@ "Work" :> 5

num_barangays == "General Santos" :> 26 @@ "Tacurong" :> 20 @@ "Isulan" :> 21 @@
                 "Koronadal" :> 27 @@ "Kidapawan" :> 40

incident_types == <<"Bullying", "Fighting", "Truancy", "Substance", "Vandalism", "Theft",
                    "Cyberbullying", "Others">>
\* thousandths
type_rates == "Bullying" :> 12 @@ "Fighting" :> 8 @@ "Truancy" :> 20 @@ "Substance" :> 4 @@
              "Vandalism" :> 6 @@ "Theft" :> 5 @@ "Cyberbullying" :> 7 @@ "Others" :> 3

subjects == <<"Math", "Science", "English", "Filipino", "History", "Arts">>
subject_difficulty == "Math" :> 90 @@ "Science" :> 93 @@ "English" :> 96 @@
                      "Filipino" :> 97 @@ "History" :> 98 @@ "Arts" :> 102

\* The keys of the returned mapping, in the order the tables are generated.
TableOrder == <<"enrollment", "graduates", "osy", "poverty", "infrastructure", "incidents",
                "performance">>

-----------------------------------------------------------------------------
(* Arithmetic *)

Max(a, b) == IF a >= b THEN a ELSE b
Min(a, b) == IF a <= b THEN a ELSE b
Sign(n) == IF n > 0 THEN 1 ELSE IF n < 0 THEN -1 ELSE 0
Abs(n) == IF n < 0 THEN -n ELSE n

\* floor(a * b / (c1 * c2)) for a, b >= 0, without forming a * b
MulDiv(a, b, c1, c2) == ((a \div c1) * b + ((a % c1) * b) \div c1) \div c2

RECURSIVE GCD(_, _)
GCD(a, b) == IF b = 0 THEN a ELSE GCD(b, a % b)

\* c divides a * b, for a, b >= 0 and c > 0, without forming a * b
Divides(c, a, b) == b % (c \div GCD(c, a)) = 0

\* dict.get(key, default)
Get(d, key, default) == IF key \in DOMAIN d THEN d[key] ELSE default

-----------------------------------------------------------------------------
(* Numbers beyond the range of the checker's integers: a natural number is the  *)
(* sequence of its digits to the base Base, lowest digit first, zero is <<>>.   *)

Base == 2^14

RECURSIVE Limbs(_)
Limbs(n) == IF n = 0 THEN <<>> ELSE <<n % Base>> \o Limbs(n \div Base)

RECURSIVE BigToInt(_)
BigToInt(a) == IF a = <<>> THEN 0 ELSE a[1] + Base * BigToInt(Tail(a))

RECURSIVE Strip(_)
Strip(a) == IF a # <<>> /\ a[Len(a)] = 0 THEN Strip(SubSeq(a, 1, Len(a) - 1)) ELSE a

Limb(a, i) == IF i <= Len(a) THEN a[i] ELSE 0

RECURSIVE BigAddFrom(_, _, _, _)
BigAddFrom(a, b, i, c) ==
    IF i > Len(a) /\ i > Len(b) THEN (IF c = 0 THEN <<>> ELSE <<c>>)
    ELSE LET s == Limb(a, i) + Limb(b, i) + c
         IN <<s % Base>> \o BigAddFrom(a, b, i + 1, s \div Base)
BigAdd(a, b) == BigAddFrom(a, b, 1, 0)

\* a - b for a >= b
RECURSIVE BigSubFrom(_, _, _, _)
BigSubFrom(a, b, i, c) ==
    IF i > Len(a) THEN <<>>
    ELSE LET s == a[i] - Limb(b, i) - c
         IN IF s < 0 THEN <<s + Base>> \o BigSubFrom(a, b, i + 1, 1)
            ELSE <<s>> \o BigSubFrom(a, b, i + 1, 0)
BigSub(a, b) == Strip(BigSubFrom(a, b, 1, 0))

\* -1, 0 or 1 as a < b, a = b or a > b
RECURSIVE BigCmpFrom(_, _, _)
BigCmpFrom(a, b, i) ==
    IF i = 0 THEN 0
    ELSE IF a[i] < b[i] THEN -1
    ELSE IF a[i] > b[i] THEN 1
    ELSE BigCmpFrom(a, b, i - 1)
BigCmp(a, b) ==
    IF Len(a) < Len(b) THEN -1 ELSE IF Len(a) > Len(b) THEN 1 ELSE BigCmpFrom(a, b, Len(a))

\* a * k for 0 <= k <= Base
RECURSIVE BigMulSmallFrom(_, _, _, _)
BigMulSmallFrom(a, k, i, c) ==
    IF i > Len(a) THEN (IF c = 0 THEN <<>> ELSE <<c>>)
    ELSE LET s == a[i] * k + c
         IN <<s % Base>> \o BigMulSmallFrom(a, k, i + 1, s \div Base)
BigMulSmall(a, k) == IF k = 0 THEN <<>> ELSE BigMulSmallFrom(a, k, 1, 0)

\* a * Base^n
ShiftLimbs(a, n) == IF a = <<>> THEN <<>> ELSE [i \in 1..n |-> 0] \o a

RECURSIVE BigMulFrom(_, _, _)
BigMulFrom(a, b, j) ==
    IF j > Len(b) THEN <<>>
    ELSE BigAdd(ShiftLimbs(BigMulSmall(a, b[j]), j - 1), BigMulFrom(a, b, j + 1))
BigMul(a, b) == BigMulFrom(a, b, 1)

\* quotient and remainder of a by a divisor 0 < d < Base
RECURSIVE BigDivSmallFrom(_, _, _, _)
BigDivSmallFrom(a, d, i, r) ==
    IF i = 0 THEN [q |-> <<>>, r |-> r]
    ELSE LET cur == r * Base + a[i]
             rest == BigDivSmallFrom(a, d, i - 1, cur % d)
         IN [q |-> rest.q \o <<cur \div d>>, r |-> rest.r]
BigDivSmall(a, d) ==
    LET x == BigDivSmallFrom(a, d, Len(a), 0) IN [q |-> Strip(x.q), r |-> Limbs(x.r)]

RECURSIVE BitsOf(_)
BitsOf(n) == IF n = 0 THEN 0 ELSE 1 + BitsOf(n \div 2)

\* number of binary digits of a
Bits(a) == IF a = <<>> THEN 0 ELSE 14 * (Len(a) - 1) + BitsOf(a[Len(a)])

\* a * 2^k and floor(a / 2^k)
Shl(a, k) == ShiftLimbs(BigMulSmall(a, 2^(k % 14)), k \div 14)
Shr(a, k) ==
    IF k \div 14 >= Len(a) THEN <<>>
    ELSE BigDivSmall(SubSeq(a, (k \div 14) + 1, Len(a)), 2^(k % 14)).q

\* binary digit i (from 0) of a
Bit(a, i) == (Limb(a, (i \div 14) + 1) \div 2^(i % 14)) % 2

\* the digit d with d * b <= r < (d + 1) * b, given lo * b <= r < hi * b
RECURSIVE QuotientDigit(_, _, _, _)
QuotientDigit(r, b, lo, hi) ==
    IF hi - lo = 1 THEN lo
    ELSE LET mid == (lo + hi) \div 2
         IN IF BigCmp(BigMulSmall(b, mid), r) <= 0 THEN QuotientDigit(r, b, mid, hi)
            ELSE QuotientDigit(r, b, lo, mid)

\* quotient and remainder of a by b > 0, long division from digit i of a down
RECURSIVE BigDivLong(_, _, _, _)
BigDivLong(a, b, i, r) ==
    IF i = 0 THEN [q |-> <<>>, r |-> r]
    ELSE LET cur == Strip(<<a[i]>> \o r)
             d == QuotientDigit(cur, b, 0, Base)
             rest == BigDivLong(a, b, i - 1, BigSub(cur, BigMulSmall(b, d)))
         IN [q |-> rest.q \o <<d>>, r |-> rest.r]
BigDivMod(a, b) ==
    IF Len(b) = 1 THEN BigDivSmall(a, b[1])
    ELSE LET x == BigDivLong(a, b, Len(a), <<>>) IN [q |-> Strip(x.q), r |-> x.r]

(* IEEE 754 binary64 numbers, the floats of Python: [s, m, e] stands for       *)
(* s * m * 2^e with sign s in {-1, 0, 1} and, unless zero, 2^52 <= m < 2^53.   *)
(* Every operation returns the double nearest to the exact result, a tie going  *)
(* to the even mantissa.  Infinities, NaN and subnormal numbers are out of the  *)
(* range of generate_all_data.                                                  *)

FZero == [s |-> 0, m |-> <<>>, e |-> 0]

\* the double nearest to s * (n + f) * 2^e, n > 0, 0 <= f < 1 and f > 0 iff sticky;
\* n has at least 55 binary digits when sticky
FNormal(s, n, sticky, e) ==
    LET nb == Bits(n) IN
    IF nb <= 53 THEN [s |-> s, m |-> Shl(n, 53 - nb), e |-> e - (53 - nb)]
    ELSE LET d == nb - 53
             q == Shr(n, d)
             low == BigSub(n, Shl(q, d))
             c == BigCmp(low, Shl(<<1>>, d - 1))
             up == c > 0 \/ (c = 0 /\ (sticky \/ Bit(q, 0) = 1))
             m == IF up THEN BigAdd(q, <<1>>) ELSE q
         IN IF Bits(m) > 53 THEN [s |-> s, m |-> Shr(m, 1), e |-> e + d + 1]
            ELSE [s |-> s, m |-> m, e |-> e + d]

RECURSIVE LowZeros(_)
LowZeros(a) == IF a # <<>> /\ a[1] = 0 THEN 1 + LowZeros(Tail(a)) ELSE 0

\* the double nearest to s * (p / q) * 2^e for naturals p, q > 0
FRatio(s, p, q, e) ==
    LET z == LowZeros(q)
        q1 == SubSeq(q, z + 1, Len(q))
        sh == Max(0, 56 + Bits(q1) - Bits(p))
        d == BigDivMod(Shl(p, sh), q1)
    IN FNormal(s, d.q, d.r # <<>>, e - sh - 14 * z)

\* the double nearest to n / d for integers n and d > 0: a decimal literal, float(n),
\* the true division of two ints
FDec(n, d) == IF n = 0 THEN FZero ELSE FRatio(Sign(n), Limbs(Abs(n)), Limbs(d), 0)
FInt(n) == FDec(n, 1)

FNeg(a) == [a EXCEPT !.s = -a.s]

FMul(a, b) ==
    IF a.s = 0 \/ b.s = 0 THEN FZero
    ELSE FNormal(a.s * b.s, BigMul(a.m, b.m), FALSE, a.e + b.e)

FDiv(a, b) == IF a.s = 0 THEN FZero ELSE FRatio(a.s * b.s, a.m, b.m, a.e - b.e)

FAdd(a, b) ==
    IF a.s = 0 THEN b
    ELSE IF b.s = 0 THEN a
    ELSE LET e == Min(a.e, b.e)
             x == Shl(a.m, a.e - e)
             y == Shl(b.m, b.e - e)
             c == BigCmp(x, y)
         IN IF a.s = b.s THEN FNormal(a.s, BigAdd(x, y), FALSE, e)
            ELSE IF c = 0 THEN FZero
            ELSE IF c > 0 THEN FNormal(a.s, BigSub(x, y), FALSE, e)
            ELSE FNormal(b.s, BigSub(y, x), FALSE, e)

FSub(a, b) == FAdd(a, FNeg(b))

\* a < b
FLess(a, b) ==
    IF a.s # b.s THEN a.s < b.s
    ELSE IF a.s = 0 THEN FALSE
    ELSE LET e == Min(a.e, b.e)
             c == BigCmp(Shl(a.m, a.e - e), Shl(b.m, b.e - e))
         IN IF a.s > 0 THEN c < 0 ELSE c > 0

\* max(a, b) and min(a, b) of Python: the first argument unless the second is beyond it
FMax(a, b) == IF FLess(a, b) THEN b ELSE a
FMin(a, b) == IF FLess(b, a) THEN b ELSE a

\* int(a): truncation toward zero
FTrunc(a) ==
    IF a.s = 0 THEN 0
    ELSE IF a.e >= 0 THEN a.s * BigToInt(Shl(a.m, a.e))
    ELSE a.s * BigToInt(Shr(a.m, -a.e))

\* round(a, ndigits) in units of 10^-ndigits, 0 <= ndigits <= 4: the decimal nearest to
\* the value of the double, a tie (the double is the midpoint itself) to the even one
FRound(a, ndigits) ==
    IF a.s = 0 THEN 0
    ELSE LET n == BigMulSmall(a.m, 10^ndigits) IN
         IF a.e >= 0 THEN a.s * BigToInt(Shl(n, a.e))
         ELSE LET q == Shr(n, -a.e)
                  c == BigCmp(BigSub(n, Shl(q, -a.e)), Shl(<<1>>, -a.e - 1))
                  up == c > 0 \/ (c = 0 /\ Bit(q, 0) = 1)
              IN a.s * (BigToInt(q) + (IF up THEN 1 ELSE 0))

\* the doubles: s * m * 2^e with the sign s, and for s # 0 the mantissa m, a number of
\* 53 binary digits
Doubles == [s : {-1, 0, 1}, m : Seq(Nat), e : Int]

\* the arithmetic of Python floats, as a value handed to the operators that compute
\* in floats
Float ==
    [dec |-> [n \in Int, d \in Int |-> FDec(n, d)],
     int |-> [n \in Int |-> FInt(n)],
     add |-> [a \in Doubles, b \in Doubles |-> FAdd(a, b)],
     sub |-> [a \in Doubles, b \in Doubles |-> FSub(a, b)],
     mul |-> [a \in Doubles, b \in Doubles |-> FMul(a, b)],
     div |-> [a \in Doubles, b \in Doubles |-> FDiv(a, b)],
     less |-> [a \in Doubles, b \in Doubles |-> FLess(a, b)],
     max |-> [a \in Doubles, b \in Doubles |-> FMax(a, b)],
     min |-> [a \in Doubles, b \in Doubles |-> FMin(a, b)],
     trunc |-> [a \in Doubles |-> FTrunc(a)],
     round |-> [a \in Doubles, ndigits \in 0..4 |-> FRound(a, ndigits)]]

-----------------------------------------------------------------------------
(* Python's int() and round() and the draws of np.random.  The code computes    *)
(* in doubles.  Beside the double x stands the exact value n / d of the same    *)
(* computation in real numbers: the quantities of the code are below 2^21 and   *)
(* come from a few operations, each within 2^-53 of its exact result, so x is   *)
(* within 10^-9 of n / d, and the denominators d are below 10^9 / 2.  Unless    *)
(* n / d lies on a boundary of the conversion (an integer for int(), a midpoint *)
(* for round()) it is at least 1 / (2 * d) away from one, and the double and    *)
(* n / d convert alike: the double is needed on a boundary only.                *)

\* int(x), x the double of a computation whose real value is n / d, d > 0
int(fl, n, d, x) ==
    IF n % d = 0 THEN fl.trunc[x]
    ELSE IF n >= 0 THEN n \div d
    ELSE -((-n) \div d)

\* int(x), x >= 0 the double of a computation whose real value is a * b / (c1 * c2)
intMulDiv(fl, a, b, c1, c2, x) ==
    IF Divides(c1 * c2, a, b) THEN fl.trunc[x] ELSE MulDiv(a, b, c1, c2)

\* round(x, ndigits) in units of 10^-ndigits, x the double of a computation whose
\* real value is n / d such units, d > 0
round(fl, n, d, x, ndigits) ==
    IF (2 * n) % d = 0 /\ ((2 * n) \div d) % 2 = 1 THEN fl.round[x, ndigits]
    ELSE (2 * n + d) \div (2 * d)

\* np.random.uniform(a, b) at level k, times Grid, in real numbers
Uniform(a, b, k) == a * Grid + (b - a) * k

\* np.random.uniform(low, high) at level k: low + (high - low) * u in doubles, u the
\* double k / Grid
uniform(fl, low, high, k) == fl.add[low, fl.mul[fl.sub[high, low], fl.dec[k, Grid]]]

\* int(n * np.random.uniform(a / 100, b / 100)) at level k
Share(fl, n, a, b, k) ==
    int(fl, n * Uniform(a, b, k), 100 * Grid,
        fl.mul[fl.int[n], uniform(fl, fl.dec[a, 100], fl.dec[b, 100], k)])

\* int(n * c) for the decimal literal c = a / d
Part(fl, n, a, d) == int(fl, n * a, d, fl.mul[fl.int[n], fl.dec[a, d]])

\* p.cumsum() up to entry i: in real numbers for weights in thousandths, and in doubles
RECURSIVE CumSum(_, _)
CumSum(p, i) == IF i = 0 THEN 0 ELSE p[i] + CumSum(p, i - 1)
RECURSIVE cumsum(_, _, _)
cumsum(fl, pf, i) == IF i = 1 THEN pf[1] ELSE fl.add[cumsum(fl, pf, i - 1), pf[i]]

\* np.random.choice(options, p) at level k, for the weights p in thousandths and pf as
\* the doubles of the code: cdf = p.cumsum() / cdf[-1], and the index (from 1) of the
\* option taken is one more than the number of entries of cdf that are <= u; level
\* Grid, the supremum of the draws, takes the last option
Choice(fl, p, pf, k) ==
    LET n == Len(p)
        NotAbove(i) ==
            IF CumSum(p, i) * Grid # CumSum(p, n) * k
            THEN CumSum(p, i) * Grid < CumSum(p, n) * k
            ELSE ~fl.less[fl.dec[k, Grid], fl.div[cumsum(fl, pf, i), cumsum(fl, pf, n)]]
    IN Min(n, 1 + Cardinality({i \in 1..n : NotAbove(i)}))

\* the weights of a literal list p (thousandths) as doubles
Weights(fl, p) == [i \in 1..Len(p) |-> fl.dec[p[i], 1000]]

\* add_noise(value, noise_level), lines 63-65, for the doubles value >= 0 and
\* noise_level and the normal draw at z standard deviations: np.random.normal(0, s) is
\* 0 + s * z
add_noise(fl, value, noise_level, z) ==
    LET noise == fl.add[FZero, fl.mul[fl.mul[noise_level, value], fl.int[z]]]
    IN fl.max[FZero, fl.add[value, noise]]

-----------------------------------------------------------------------------
(* Rows.  Each operator is the dict appended by one innermost loop step; the *)
(* draw parameters are in the order the step consumes them.  Beside a value  *)
(* in real numbers stands the double the code computes for it, the decimal   *)
(* literals of the source being the doubles nearest to them.                 *)

\* lines 73-84: enrollment year factor, hundredths
EnrollmentFactor(year) ==
    IF year < 2020 THEN 100
    ELSE IF year = 2020 THEN 92
    ELSE IF year = 2021 THEN 88
    ELSE IF year = 2022 THEN 95
    ELSE IF year = 2023 THEN 98
    ELSE 102

\* mutant of EnrollmentMonthFactor: January left out of the months at factor 1.0
EnrollmentMonthFactor_NoJanuary(month) ==
    IF month \in {6, 7, 8} THEN 110
    ELSE IF month \in {9, 10, 11, 12} THEN 100
    ELSE 95

\* line 89: seasonal factor, hundredths
EnrollmentMonthFactor(month) ==
    IF month \in {6, 7, 8} THEN 110
    ELSE IF month \in {9, 10, 11, 12, 1} THEN 100
    ELSE 95

\* line 97
Quarter(month) == QUARTERS[((month - 1) \div 3) + 1]

\* int(add_noise(value, noise_level)) for value = a * b / (c1 * c2) with a, b >= 0, the
\* double value_f computed for it, noise_level in hundredths and the normal draw at z
\* standard deviations
NoisyCount(fl, a, b, c1, c2, value_f, noise_level, z) ==
    IF 100 + noise_level * z <= 0 THEN 0
    ELSE intMulDiv(fl, a, b * (100 + noise_level * z), c1, c2 * 100,
                   add_noise(fl, value_f, fl.dec[noise_level, 100], z))

\* line 91: int(add_noise(base * factor * month_factor, 0.03))
EnrollmentTotal(fl, city, year, month, z) ==
    LET base == CITIES[city].base_enrollment
        factor == EnrollmentFactor(year)
        month_factor == EnrollmentMonthFactor(month)
    IN NoisyCount(fl, base * factor, month_factor, 1000, 10,
                  fl.mul[fl.mul[fl.int[base], fl.dec[factor, 100]], fl.dec[month_factor, 100]],
                      3, z)

EnrollmentRow(fl, city, year, month, z, k1, k2, k3) ==
    LET total == EnrollmentTotal(fl, city, year, month, z)
        poverty_rate == CITIES[city].poverty_rate
        public == int(fl, total * (780 + poverty_rate * 3), 1000,
                      fl.mul[fl.int[total],
                           fl.add[fl.dec[78, 100], fl.mul[fl.dec[poverty_rate, 100],
                                                          fl.dec[3, 10]]]])
    IN [table |-> "enrollment",
        City |-> city, Year |-> year, Month |-> month,
        Quarter |-> Quarter(month),
        Total_Enrollment |-> total,
        Elementary |-> Part(fl, total, 48, 100),
        Junior_High |-> Part(fl, total, 32, 100),
        Senior_High |-> Part(fl, total, 20, 100),
        Male |-> Share(fl, total, 48, 50, k1),
        Female |-> total - Share(fl, total, 48, 50, k2),
        Public_Schools |-> public,
        Private_Schools |-> total - public,
        Enrollment_Rate |->
            round(fl, Uniform(89, 97, k3) * 10, Grid, uniform(fl, fl.dec[89, 100],
                                                              fl.dec[97, 100], k3), 3)]

\* mutant of GradRate: the poverty term added instead of subtracted
GradRate_Plus(city) == 9500 + CITIES[city].poverty_rate * 15

\* line 115: 0.95 - poverty_rate * 0.15, in ten-thousandths
GradRate(city) == 9500 - CITIES[city].poverty_rate * 15

\* line 115 in doubles
grad_rate(fl, city) ==
    fl.sub[fl.dec[95, 100], fl.mul[fl.dec[CITIES[city].poverty_rate, 100], fl.dec[15, 100]]]

GraduatesRow(fl, city, year, track, school_type, k1, k2, k3, k4, k5, k6) ==
    LET base_graduates == Part(fl, CITIES[city].base_enrollment, 8, 100)
        total == IF year < 2018 THEN Part(fl, base_graduates, 7,
                                          10) ELSE Part(fl, base_graduates, 10, 10)
        type_factor == IF school_type = "Private" THEN 30 ELSE 70
        actual == intMulDiv(fl, total * track_dist[track] * type_factor, GradRate(city), 10000,
                            10000,
                            fl.mul[fl.mul[fl.mul[fl.int[total], fl.dec[track_dist[track], 100]],
                                      fl.dec[type_factor, 100]],
                                 grad_rate(fl, city)])
    IN [table |-> "graduates",
        City |-> city, Year |-> year, Track |-> track, School_Type |-> school_type,
        Total_Graduates |-> actual,
        Graduation_Rate |->
            round(fl, GradRate(city) * Grid + 100 * Uniform(-5, 5, k1), 10 * Grid,
                  fl.add[grad_rate(fl, city), uniform(fl, fl.dec[-5, 100], fl.dec[5, 100],
                                                      k1)], 3),
        To_College |-> Share(fl, actual, 55, 68, k2),
        To_Employment |-> Share(fl, actual, 15, 25, k3),
        To_Vocational |-> Share(fl, actual, 5, 12, k4),
        NEET |-> Share(fl, actual, 8, 15, k5),
        Average_Grade |->
            round(fl, Uniform(82, 94, k6) * 100, Grid, uniform(fl, fl.int[82], fl.int[94], k6),
                  2)]

\* lines 145-156: out-of-school-youth year factor, hundredths
OsyFactor(year) ==
    IF year < 2020 THEN 100
    ELSE IF year = 2020 THEN 115
    ELSE IF year = 2021 THEN 122
    ELSE IF year = 2022 THEN 114
    ELSE IF year = 2023 THEN 106
    ELSE 100

OsyRow(fl, city, year, age_group, reason, z, k1, k2, k3, k4) ==
    LET population == CITIES[city].population
        poverty_rate == CITIES[city].poverty_rate
        base_osy == int(fl, population * 3 * (100 + poverty_rate), 10000,
                        fl.mul[fl.mul[fl.int[population], fl.dec[3, 100]],
                             fl.add[fl.int[1], fl.dec[poverty_rate, 100]]])
        factor == OsyFactor(year)
        total_osy ==
            NoisyCount(fl, base_osy * factor * age_dist[age_group], reason_dist[reason], 10000,
                       100,
                       fl.mul[fl.mul[fl.mul[fl.int[base_osy], fl.dec[factor, 100]],
                                 fl.dec[age_dist[age_group], 100]],
                            fl.dec[reason_dist[reason], 100]], 8, z)
    IN [table |-> "osy",
        City |-> city, Year |-> year, Age_Group |-> age_group, Reason |-> reason,
        Total_OSY |-> total_osy,
        ALS_Enrolled |-> Share(fl, total_osy, 15, 30, k1),
        Returned_to_School |-> Share(fl, total_osy, 5, 12, k2),
        Gender_Male |-> Share(fl, total_osy, 45, 55, k3),
        Gender_Female |-> total_osy - Share(fl, total_osy, 45, 55, k4)]

\* lines 191-192: the barangay count of a city
BarangayCount(nb, city) == Get(nb, city, 20)

PovertyRow(fl, nb, city, year, barangay_num, k1, k2, k3, k4) ==
    LET total_students == CITIES[city].base_enrollment
        poverty_rate == CITIES[city].poverty_rate
        barangay_students == int(fl, total_students, BarangayCount(nb, city),
                                 fl.dec[total_students, BarangayCount(nb, city)])
        \* local_poverty_rate in units of 1 / (100 * Grid), and in doubles
        local_poverty_rate ==
            Max(5 * Grid, Min(60 * Grid, poverty_rate * Grid + Uniform(-15, 15, k1)))
        local_poverty_rate_f ==
            fl.max[fl.dec[5, 100],
                 fl.min[fl.dec[60, 100],
                      fl.add[fl.dec[poverty_rate, 100], uniform(fl, fl.dec[-15, 100],
                                                                fl.dec[15, 100], k1)]]]
    IN [table |-> "poverty",
        City |-> city, Year |-> year, Barangay |-> barangay_num,
        Total_Students |-> barangay_students,
        FourPs_Beneficiaries |->
            int(fl, barangay_students * local_poverty_rate * 85, 10000 * Grid,
                fl.mul[fl.mul[fl.int[barangay_students], local_poverty_rate_f], fl.dec[85, 100]]),
        Scholarship_Recipients |-> Share(fl, barangay_students, 10, 20, k2),
        Feeding_Program |-> Share(fl, barangay_students, 20, 40, k3),
        Financial_Assistance |-> Share(fl, barangay_students, 12, 25, k4),
        Poverty_Rate |-> round(fl, local_poverty_rate * 10, Grid, local_poverty_rate_f, 3)]

\* mutant of SchoolType: strict comparison
SchoolType_Strict(city, school_num) ==
    IF school_num < CITIES[city].schools_public THEN "Public" ELSE "Private"

\* line 216
SchoolType(city, school_num) ==
    IF school_num <= CITIES[city].schools_public THEN "Public" ELSE "Private"

SchoolSizes == <<"Small", "Medium", "Large">>

InfrastructureRow(fl, city, year, school_num, k1, k2, k3, k4, k5, k6, k7) ==
    LET school_type == SchoolType(city, school_num)
        dy == year - 2015
        \* thousandths, and in doubles
        shortage_rate == Max(20, 200 - dy * 15)
        shortage_rate_f == fl.max[fl.dec[2, 100], fl.sub[fl.dec[20, 100],
                                                         fl.mul[fl.int[dy], fl.dec[15, 1000]]]]
        size == IF school_type = "Public"
                THEN Choice(fl, <<300, 500, 200>>, Weights(fl, <<300, 500, 200>>), k1)
                ELSE Choice(fl, <<500, 400, 100>>, Weights(fl, <<500, 400, 100>>), k1)
        base_students == IF school_type = "Public" THEN <<200, 500, 1000>>[size]
                         ELSE <<150, 300, 600>>[size]
    IN [table |-> "infrastructure",
        City |-> city, Year |-> year, School_ID |-> school_num,
        School_Type |-> school_type,
        School_Size |-> SchoolSizes[size],
        Student_Population |-> Share(fl, base_students, 90, 110, k2),
        Classrooms |-> int(fl, base_students, 40, fl.dec[base_students, 40]),
        Classroom_Shortage |->
            int(fl, base_students * shortage_rate, 40000,
                fl.mul[fl.dec[base_students, 40], shortage_rate_f]),
        Has_Computer_Lab |->
            <<1, 0>>[Choice(fl, <<Min(900, 400 + dy * 50), Max(100, 600 - dy * 50)>>,
                            <<fl.min[fl.dec[90, 100], fl.add[fl.dec[40, 100],
                                                             fl.mul[fl.int[dy], fl.dec[5, 100]]]],
                              fl.max[fl.dec[10, 100],
                                     fl.sub[fl.dec[60, 100], fl.mul[fl.int[dy],
                                                                    fl.dec[5, 100]]]]>>,
                            k3)],
        Has_Internet |->
            <<1, 0>>[Choice(fl, <<Min(850, 300 + dy * 55), Max(150, 700 - dy * 55)>>,
                            <<fl.min[fl.dec[85, 100],
                                     fl.add[fl.dec[30, 100], fl.mul[fl.int[dy],
                                                                    fl.dec[55, 1000]]]],
                              fl.max[fl.dec[15, 100],
                                     fl.sub[fl.dec[70, 100], fl.mul[fl.int[dy],
                                                                    fl.dec[55, 1000]]]]>>,
                            k4)],
        Has_Library |-> <<1, 0>>[Choice(fl, <<750, 250>>, Weights(fl, <<750, 250>>), k5)],
        Has_Science_Lab |-> <<1, 0>>[Choice(fl, <<550, 450>>, Weights(fl, <<550, 450>>), k6)],
        Teacher_Count |-> int(fl, base_students, 30, fl.dec[base_students, 30]),
        Teacher_Student_Ratio |->
            round(fl, 10000 * Grid, Uniform(25, 38, k7),
                  fl.div[fl.int[1], uniform(fl, fl.int[25], fl.int[38], k7)], 4)]

IncidentsRow(fl, city, year, month, incident_type, k1, k2, k3, k4, k5, k6) ==
    LET base_students == CITIES[city].base_enrollment
        \* tenths
        factor == IF year \in {2020, 2021} THEN 5 ELSE 10
        month_factor == IF month \in {9, 10, 11, 1, 2, 3} THEN 12 ELSE 3
        count == int(fl, base_students * type_rates[incident_type] * factor * month_factor,
                     1200000,
                     fl.div[fl.mul[fl.mul[fl.mul[fl.int[base_students],
                                                 fl.dec[type_rates[incident_type], 1000]],
                                    fl.dec[factor, 10]],
                               fl.dec[month_factor, 10]],
                          fl.int[12]])
    IN [table |-> "incidents",
        City |-> city, Year |-> year, Month |-> month, Incident_Type |-> incident_type,
        Incident_Count |-> count,
        Resolved |-> Share(fl, count, 70, 95, k1),
        Pending |-> Share(fl, count, 5, 20, k2),
        Escalated |-> Share(fl, count, 0, 10, k3),
        Student_Suspended |-> Share(fl, count, 10, 30, k4),
        Parent_Conference |-> Share(fl, count, 50, 80, k5),
        Counseling_Provided |-> Share(fl, count, 40, 70, k6)]

\* lines 308-310: the clamped score, in hundredths
AverageScore(fl, city, year, grade_num, subject, k) ==
    LET poverty_rate == CITIES[city].poverty_rate
        base_score == 750 - poverty_rate * 3                    \* tenths
        improvement == (year - 2015) * 12                       \* tenths
        grade_factor == 100 - grade_num                         \* hundredths
        base_score_f == fl.sub[fl.int[75], fl.mul[fl.dec[poverty_rate, 100], fl.int[30]]]
        improvement_f == fl.mul[fl.int[year - 2015], fl.dec[12, 10]]
        grade_factor_f == fl.sub[fl.int[1], fl.dec[grade_num, 100]]
        score == round(fl, (base_score + improvement) * grade_factor * subject_difficulty[subject]
                         * Grid + Uniform(-4, 4, k) * 100000,
                       1000 * Grid,
                       fl.add[fl.mul[fl.mul[fl.add[base_score_f, improvement_f], grade_factor_f],
                                 fl.dec[subject_difficulty[subject], 100]],
                            uniform(fl, fl.int[-4], fl.int[4], k)],
                       2)
    IN Max(4000, Min(10000, score))

PerformanceRow(fl, city, year, grade_num, subject, k1, k2, k3) ==
    LET score == AverageScore(fl, city, year, grade_num, subject, k1)
        score_f == fl.dec[score, 100]
    IN [table |-> "performance",
        City |-> city, Year |-> year, Grade_Level |-> GRADE_LEVELS[grade_num],
        Subject |-> subject,
        Average_Score |-> score,
        Passing_Rate |->
            round(fl, Min(980 * 7, Max(600 * 7, score - 3000)), 7,
                  fl.min[fl.dec[98, 100],
                         fl.max[fl.dec[60, 100], fl.div[fl.sub[score_f, fl.int[30]],
                                                        fl.int[70]]]],
                  3),
        High_Performers |->
            int(fl, score - 6000, 20, fl.mul[fl.int[200], fl.div[fl.sub[score_f, fl.int[60]],
                                                                 fl.int[40]]]),
        Low_Performers |->
            int(fl, 8500 - score, 20, fl.mul[fl.int[200], fl.div[fl.sub[fl.int[85], score_f],
                                                                 fl.int[40]]]),
        Class_Size_Avg |-> int(fl, Uniform(35, 50, k2), Grid, uniform(fl, fl.int[35],
                                                                      fl.int[50], k2)),
        Teacher_Quality_Rating |->
            round(fl, Uniform(35, 50, k3) * 10, Grid, uniform(fl, fl.dec[35, 10], fl.int[5],
                                                              k3), 2)]

-----------------------------------------------------------------------------
(* The nested loops of generate_all_data.  A position is one innermost loop  *)
(* step: table tbl of TableOrder, city ci of CityNames, year, and the two    *)
(* inner loop counters i and j (j = 1 where there is one inner loop).        *)

Tables == {TableOrder[t] : t \in 1..Len(TableOrder)}
Cities == {CityNames[c] : c \in 1..Len(CityNames)}

FirstPos(t) == [tbl |-> t, ci |-> 1, year |-> FirstYear, i |-> 1, j |-> 1]
DonePos == FirstPos(Len(TableOrder) + 1)

\* mutant of DimI: MONTHS = range(1, 12) in the enrollment loop
DimI_ElevenMonths(t, city, nb) ==
    CASE t = "enrollment" -> Cardinality(MONTHS) - 1
      [] t = "graduates" -> Len(tracks)
      [] t = "osy" -> Len(age_groups)
      [] t = "poverty" -> BarangayCount(nb, city)
      [] t = "infrastructure" -> CITIES[city].schools_public + CITIES[city].schools_private
      [] t = "incidents" -> Cardinality(MONTHS)
      [] t = "performance" -> Len(GRADE_LEVELS)

\* size of the first inner loop
DimI(t, city, nb) ==
    CASE t = "enrollment" -> Cardinality(MONTHS)
      [] t = "graduates" -> Len(tracks)
      [] t = "osy" -> Len(age_groups)
      [] t = "poverty" -> BarangayCount(nb, city)
      [] t = "infrastructure" -> CITIES[city].schools_public + CITIES[city].schools_private
      [] t = "incidents" -> Cardinality(MONTHS)
      [] t = "performance" -> Len(GRADE_LEVELS)

\* size of the second inner loop
DimJ(t) ==
    CASE t = "graduates" -> Len(SCHOOL_TYPES)
      [] t = "osy" -> Len(reasons)
      [] t = "incidents" -> Len(incident_types)
      [] t = "performance" -> Len(subjects)
      [] OTHER -> 1

NextPos(p, nb) ==
    LET t == TableOrder[p.tbl]
        city == CityNames[p.ci]
    IN IF p.j < DimJ(t) THEN [p EXCEPT !.j = @ + 1]
       ELSE IF p.i < DimI(t, city, nb) THEN [p EXCEPT !.i = @ + 1, !.j = 1]
       ELSE IF p.year < LastYear THEN [p EXCEPT !.year = @ + 1, !.i = 1, !.j = 1]
       ELSE IF p.ci < Len(CityNames) THEN [FirstPos(p.tbl) EXCEPT !.ci = p.ci + 1]
       ELSE FirstPos(p.tbl + 1)

\* the row appended at position p, the normal draw of the step (enrollment, osy) at z
\* standard deviations and its uniform and choice draws at the levels u[1], u[2], ...
\* in the order the step draws them
RowAt(fl, p, nb, z, u) ==
    LET t == TableOrder[p.tbl]
        city == CityNames[p.ci]
    IN CASE t = "enrollment" -> EnrollmentRow(fl, city, p.year, p.i, z, u[1], u[2], u[3])
         [] t = "graduates" ->
                GraduatesRow(fl, city, p.year, tracks[p.i], SCHOOL_TYPES[p.j],
                             u[1], u[2], u[3], u[4], u[5], u[6])
         [] t = "osy" ->
                OsyRow(fl, city, p.year, age_groups[p.i], reasons[p.j], z, u[1], u[2], u[3], u[4])
         [] t = "poverty" -> PovertyRow(fl, nb, city, p.year, p.i, u[1], u[2], u[3], u[4])
         [] t = "infrastructure" ->
                InfrastructureRow(fl, city, p.year, p.i, u[1], u[2], u[3], u[4], u[5], u[6], u[7])
         [] t = "incidents" ->
                IncidentsRow(fl, city, p.year, p.i, incident_types[p.j],
                             u[1], u[2], u[3], u[4], u[5], u[6])
         [] t = "performance" -> PerformanceRow(fl, city, p.year, p.i, subjects[p.j], u[1],
                                                u[2], u[3])

\* draws of the random stream one loop step consumes
DrawsPerRow(t) ==
    CASE t = "enrollment" -> 4
      [] t = "graduates" -> 6
      [] t = "osy" -> 5
      [] t = "poverty" -> 4
      [] t = "infrastructure" -> 7
      [] t = "incidents" -> 6
      [] t = "performance" -> 3

\* the levels of the normal draw of a step (0 where the step draws none)
NoiseLevels(t) == IF t \in {"enrollment", "osy"} THEN {-MaxSigma, 0, MaxSigma} ELSE {0}

\* the draws of np.random.uniform and np.random.choice among the draws of a step:
\* add_noise draws first in the enrollment and osy steps
LevelDraws(t) == IF t \in {"enrollment", "osy"} THEN DrawsPerRow(t) - 1 ELSE DrawsPerRow(t)

\* the draws one step can meet
Draws(t) == [z : NoiseLevels(t), u : [1..LevelDraws(t) -> 0..Grid]]

\* the fields of a row of table t that no draw enters
DimensionFields(t) ==
    CASE t = "enrollment" -> {"table", "City", "Year", "Month"}
      [] t = "graduates" -> {"table", "City", "Year", "Track", "School_Type"}
      [] t = "osy" -> {"table", "City", "Year", "Age_Group", "Reason"}
      [] t = "poverty" -> {"table", "City", "Year", "Barangay"}
      [] t = "infrastructure" -> {"table", "City", "Year", "School_ID", "School_Type"}
      [] t = "incidents" -> {"table", "City", "Year", "Month", "Incident_Type"}
      [] t = "performance" -> {"table", "City", "Year", "Grade_Level", "Subject"}

\* the dimension fields of the dict appended at position p: the loop variables the
\* step puts into it
RowKey(p) ==
    LET t == TableOrder[p.tbl]
        city == CityNames[p.ci]
    IN CASE t = "enrollment" -> [table |-> t, City |-> city, Year |-> p.year, Month |-> p.i]
         [] t = "graduates" ->
                [table |-> t, City |-> city, Year |-> p.year, Track |-> tracks[p.i],
                 School_Type |-> SCHOOL_TYPES[p.j]]
         [] t = "osy" ->
                [table |-> t, City |-> city, Year |-> p.year, Age_Group |-> age_groups[p.i],
                 Reason |-> reasons[p.j]]
         [] t = "poverty" -> [table |-> t, City |-> city, Year |-> p.year, Barangay |-> p.i]
         [] t = "infrastructure" ->
                [table |-> t, City |-> city, Year |-> p.year, School_ID |-> p.i,
                 School_Type |-> SchoolType(city, p.i)]
         [] t = "incidents" ->
                [table |-> t, City |-> city, Year |-> p.year, Month |-> p.i,
                 Incident_Type |-> incident_types[p.j]]
         [] t = "performance" ->
                [table |-> t, City |-> city, Year |-> p.year, Grade_Level |-> GRADE_LEVELS[p.i],
                 Subject |-> subjects[p.j]]

\* the row appended at position p as the walk through the loops records it: its
\* dimension fields, the same at every draw, and for the other fields the draws that
\* decide them, the next DrawsPerRow draws of the stream r
StepRow(p, r) ==
    LET key == RowKey(p)
    IN [f \in DOMAIN key \cup {"draws"} |-> IF f = "draws" THEN r ELSE key[f]]

\* the values of a row's dimension fields below city and year
InnerKey(r) ==
    CASE r.table = "enrollment" -> <<r.Month>>
      [] r.table = "graduates" -> <<r.Track, r.School_Type>>
      [] r.table = "osy" -> <<r.Age_Group, r.Reason>>
      [] r.table = "poverty" -> <<r.Barangay>>
      [] r.table = "infrastructure" -> <<r.School_ID, r.School_Type>>
      [] r.table = "incidents" -> <<r.Month, r.Incident_Type>>
      [] r.table = "performance" -> <<r.Grade_Level, r.Subject>>

NoRow == [table |-> "none", City |-> "", Year |-> 0]
NoDraw == [z |-> 0, u |-> <<>>]
NoTables == <<>>
NoRows == [t \in Tables |-> [c \in Cities |-> [y \in YEARS |-> 0]]]

\* mutant of Seed: the stream is left as the process started it
Seed_Omitted(r, s) == r

\* np.random.seed(s): the stream restarts at the beginning of the stream of seed s
Seed(r, s) == [src |-> s, n |-> 0]

\* list.append(row) on the table's list, kept as row counts per city and year
AppendRow(c, r) == [c EXCEPT ![r.table][r.City][r.Year] = @ + 1]

-----------------------------------------------------------------------------
(* Presentation layer *)

AllCities == "All Cities"
AllYears == 0
PageSize == 15
Pages == {"home", "city", "all"}
YearOptions == {AllYears} \cup YEARS
CityOptions == {AllCities} \cup Cities

RECURSIVE SumOver(_, _, _)
SumOver(f, S, Y) ==
    IF S = {} THEN 0
    ELSE LET x == CHOOSE y \in S : TRUE
         IN (IF Y = {} THEN f[x] ELSE SumOver(f[x], Y, {})) + SumOver(f, S \ {x}, Y)

\* len(df[df['City'] == city][df['Year'] == year]), a filter set to All leaves the rows
FilteredRows(c, t, city, year) ==
    SumOver(c[t], {x \in Cities : city = AllCities \/ x = city},
            {y \in YEARS : year = AllYears \/ y = year})

\* df.iloc[start_idx:end_idx] of a frame of total_rows rows, for indexes >= 0:
\* the positions (counted from 0) of the rows of the slice, in the frame's order
iloc(total_rows, start_idx, end_idx) ==
    LET a == Min(start_idx, total_rows)
        b == Min(end_idx, total_rows)
    IN [i \in 1..Max(0, b - a) |-> a + i - 1]

\* mutant of paginate_dataframe: the number of pages is rounded down
paginate_dataframe_Floor(total_rows, page_size, page_num) ==
    LET total_pages == total_rows \div page_size
        start_idx == (page_num - 1) * page_size
        end_idx == Min(start_idx + page_size, total_rows)
        df_page == iloc(total_rows, start_idx, end_idx)
    IN [df_page |-> df_page, shown |-> Len(df_page), total_pages |-> total_pages,
        start_idx |-> start_idx, end_idx |-> end_idx, total_rows |-> total_rows]

\* lines 414-422; the frame is given by its number of rows, df_page by row positions
paginate_dataframe(total_rows, page_size, page_num) ==
    LET total_pages == (total_rows + page_size - 1) \div page_size
        start_idx == (page_num - 1) * page_size
        end_idx == Min(start_idx + page_size, total_rows)
        df_page == iloc(total_rows, start_idx, end_idx)
    IN [df_page |-> df_page, shown |-> Len(df_page), total_pages |-> total_pages,
        start_idx |-> start_idx, end_idx |-> end_idx, total_rows |-> total_rows]

\* mutant of DatasetsAfterAllData: the filtered frame is stored back into the mapping
DatasetsAfterAllData_InPlace(c, city, year) ==
    [t \in DOMAIN c |-> [x \in DOMAIN c[t] |-> [y \in DOMAIN c[t][x] |->
        IF (city = AllCities \/ x = city) /\ (year = AllYears \/ y = year)
        THEN c[t][x][y] ELSE 0]]]

\* lines 524-532: page_all_data filters a copy of each table; the tables it leaves
DatasetsAfterAllData(c, city, year) == c

\* lines 484-486: page_city_dashboard indexes the tables by a mask; the tables it leaves
DatasetsAfterCityDashboard(c, city) == c

\* DataFrame.to_csv(index=False) of a frame of the given number of rows:
\* the number of text lines, a header line and one line per row
to_csv(rows) == 1 + rows

\* mutant of DownloadFrame: the displayed page is exported
DownloadFrame_Page(df_filtered, df_page) == df_page

\* line 594: of the filtered frame and the page slice, the frame handed to to_csv
\* (frames given by their number of rows)
DownloadFrame(df_filtered, df_page) == df_filtered

\* mutant of TableId: the id is built from the displayed header
TableId_Header(category) == category \o " DATA"

\* lines 544 and 554: f"{category}_data_table"
TableId(category) == category \o "_data_table"

\* line 597: f"{category}_data.csv"
CsvFileName(category) == category \o "_data.csv"

\* lines 571-581: st.number_input raises an exception when value is outside
\* min_value..max_value, which ends the script run at that widget
InputRejected(total_pages, current_page) == current_page < 1 \/ current_page > total_pages

\* lines 524-603: position in datasets.items() of the first category whose number
\* input is rejected, one past the last category when there is none
FirstRejected(c, sc, sy, pn) ==
    LET bad == {i \in 1..Len(TableOrder) :
                  InputRejected(paginate_dataframe(FilteredRows(c, TableOrder[i], sc, sy),
                                                   PageSize, pn[TableOrder[i]]).total_pages,
                                pn[TableOrder[i]])}
    IN IF bad = {} THEN Len(TableOrder) + 1
       ELSE CHOOSE i \in bad : \A j \in bad : i <= j

\* lines 524-603, page_all_data's loop: pages is what lines 535-554 show of each
\* category reached, csv the download of lines 593-601 of each category completed
RenderAllData(c, sc, sy, pn) ==
    LET stop == FirstRejected(c, sc, sy, pn)
        reached == {TableOrder[i] : i \in 1..Min(stop, Len(TableOrder))}
        completed == {TableOrder[i] : i \in 1..(stop - 1)}
    IN [page |-> "all",
        records |-> [t \in reached |-> FilteredRows(c, t, sc, sy)],
        pages |-> [t \in reached |->
                     paginate_dataframe(FilteredRows(c, t, sc, sy), PageSize, pn[t])],
        table_id |-> [t \in reached |-> TableId(t)],
        csv |-> [t \in completed |->
                   [file_name |-> CsvFileName(t),
                    lines |-> to_csv(DownloadFrame(FilteredRows(c, t, sc, sy),
                        paginate_dataframe(FilteredRows(c, t, sc, sy), PageSize, pn[t]).shown))]],
        error |-> IF stop <= Len(TableOrder) THEN {TableOrder[stop]} ELSE {}]

\* what main displays for the sidebar page pg
Render(c, pg, dc, sc, sy, pn) ==
    CASE pg = "home" ->
           [page |-> pg, records |-> [t \in Tables |-> FilteredRows(c, t, AllCities, AllYears)]]
      [] pg = "city" ->
           [page |-> pg,
            records |-> [t \in {"enrollment", "performance"} |-> FilteredRows(c, t, dc,
                                                                              AllYears)]]
      [] pg = "all" -> RenderAllData(c, sc, sy, pn)

\* the tables the script holds after rendering page pg
DatasetsAfterRender(c, pg, dc, sc, sy) ==
    CASE pg = "home" -> c
      [] pg = "city" -> DatasetsAfterCityDashboard(c, dc)
      [] pg = "all" -> DatasetsAfterAllData(c, sc, sy)

-----------------------------------------------------------------------------
(* Actions *)

SeedValue == 42
NoCache == [hit |-> FALSE]

\* mutant of CacheHit: generate_all_data without the memoizing decorator
CacheHit_Never(c) == FALSE

\* @st.cache_data: the call is answered from the cache
CacheHit(c) == c.hit

uiVars == <<page, dashCity, selCity, selYear, page_numbers>>
genVars == <<rng, pos, row, drw, grp, genRuns, seedCalls>>
run2Vars == <<pc2, rng2, pos2, row2, cnt2, cache2, stream, steps>>
walkVars == <<tableRows, pageNum, slice, seen>>

\* the body of generate_all_data starts: line 39 and the empty lists
GenBegin ==
    /\ pc' = "gen"
    /\ rng' = Seed(rng, SeedValue)
    /\ seedCalls' = seedCalls + 1
    /\ genRuns' = genRuns + 1
    /\ pos' = FirstPos(1)
    /\ row' = NoRow
    /\ drw' = NoDraw
    /\ cnt' = NoRows
    /\ grp' = {}
    /\ UNCHANGED <<cache, view>>

\* main, lines 609-650, with the widget state pg, dc, sc, sy, pn of this rerun
Main(pg, dc, sc, sy, pn) ==
    /\ page' = pg
    /\ dashCity' = dc
    /\ selCity' = sc
    /\ selYear' = sy
    /\ page_numbers' = pn
    /\ IF CacheHit(cache)
       THEN /\ pc' = "ui"
            /\ view' = Render(cache.value, pg, dc, sc, sy, pn)
            /\ cnt' = DatasetsAfterRender(cache.value, pg, dc, sc, sy)
            /\ UNCHANGED <<cache, genVars>>
       ELSE GenBegin

\* the first run of the script: every widget at its default
Boot ==
    /\ pc = "boot"
    /\ Main(page, dashCity, selCity, selYear, page_numbers)
    /\ UNCHANGED <<events, numBarangays, walkVars, run2Vars>>

\* one innermost loop step of generate_all_data
GenRow ==
    /\ pc = "gen"
    /\ pos # DonePos
    /\ LET r == StepRow(pos, rng) IN
         /\ row' = r
         /\ cnt' = AppendRow(cnt, r)
         /\ grp' = IF <<row.table, row.City, row.Year>> = <<r.table, r.City, r.Year>>
                   THEN grp \cup {InnerKey(r)} ELSE {InnerKey(r)}
         /\ rng' = [rng EXCEPT !.n = @ + DrawsPerRow(r.table)]
    /\ pos' = NextPos(pos, numBarangays)
    /\ UNCHANGED <<drw, pc, cache, genRuns, seedCalls, uiVars, view, events, numBarangays,
                   walkVars, run2Vars>>

\* lines 325-336 and the rest of main: the tables are returned, cached and rendered
GenReturn ==
    /\ pc = "gen"
    /\ pos = DonePos
    /\ pc' = "ui"
    /\ cache' = [hit |-> TRUE, value |-> cnt]
    /\ view' = Render(cnt, page, dashCity, selCity, selYear, page_numbers)
    /\ cnt' = DatasetsAfterRender(cnt, page, dashCity, selCity, selYear)
    /\ row' = NoRow
    /\ drw' = NoDraw
    /\ grp' = {}
    /\ UNCHANGED <<rng, pos, genRuns, seedCalls, uiVars, events, numBarangays, walkVars,
                   run2Vars>>

Interact ==
    /\ pc = "ui"
    /\ events < MaxEvents
    /\ events' = events + 1
    /\ UNCHANGED <<numBarangays, walkVars, run2Vars>>

\* sidebar radio, line 620; the widgets of the page left lose their state
SelectPage ==
    /\ Interact
    /\ \E pg \in Pages \ {page} :
         Main(pg, CityNames[1], AllCities, AllYears, page_numbers)

\* sidebar selectbox, line 628
SelectDashCity ==
    /\ Interact
    /\ page = "city"
    /\ \E c \in Cities \ {dashCity} : Main(page, c, selCity, selYear, page_numbers)

\* line 514
SelectCity ==
    /\ Interact
    /\ page = "all"
    /\ \E c \in CityOptions \ {selCity} : Main(page, dashCity, c, selYear, page_numbers)

\* line 516
SelectYear ==
    /\ Interact
    /\ page = "all"
    /\ \E y \in YearOptions \ {selYear} : Main(page, dashCity, selCity, y, page_numbers)

\* lines 560-562
First ==
    /\ Interact
    /\ page = "all"
    /\ \E t \in DOMAIN view.pages :
         Main(page, dashCity, selCity, selYear, [page_numbers EXCEPT ![t] = 1])

\* lines 565-567
Prev ==
    /\ Interact
    /\ page = "all"
    /\ \E t \in DOMAIN view.pages :
         /\ page_numbers[t] # 1
         /\ Main(page, dashCity, selCity, selYear,
                 [page_numbers EXCEPT ![t] = Max(1, @ - 1)])

\* lines 584-586
Next_ ==
    /\ Interact
    /\ page = "all"
    /\ \E t \in DOMAIN view.csv :
         /\ page_numbers[t] # view.pages[t].total_pages
         /\ Main(page, dashCity, selCity, selYear,
                 [page_numbers EXCEPT ![t] = Min(view.pages[t].total_pages, @ + 1)])

\* lines 589-591
Last ==
    /\ Interact
    /\ page = "all"
    /\ \E t \in DOMAIN view.csv :
         Main(page, dashCity, selCity, selYear,
              [page_numbers EXCEPT ![t] = view.pages[t].total_pages])

\* lines 571-581: a page number typed into the number input
GoTo ==
    /\ Interact
    /\ page = "all"
    /\ \E t \in DOMAIN view.csv :
         \E n \in 1..Min(MaxTyped, view.pages[t].total_pages) :
           /\ n # page_numbers[t]
           /\ Main(page, dashCity, selCity, selYear, [page_numbers EXCEPT ![t] = n])

NoPage == [total_pages |-> 0]

\* the process before the script's first run: nothing is cached and the script has
\* bound no table yet
Idle ==
    /\ pc = "boot"
    /\ cache = NoCache
    /\ rng = [src |-> -1, n |-> 0]
    /\ row = NoRow
    /\ drw = NoDraw
    /\ cnt = NoTables
    /\ grp = {}
    /\ genRuns = 0
    /\ seedCalls = 0
    /\ page = "home"
    /\ dashCity = CityNames[1]
    /\ selCity = AllCities
    /\ selYear = AllYears
    /\ page_numbers = [t \in Tables |-> 1]
    /\ view = [page |-> "none"]
    /\ events = 0
    /\ pc2 = "boot"
    /\ rng2 = [src |-> -2, n |-> 0]
    /\ pos2 = DonePos
    /\ row2 = NoRow
    /\ cnt2 = NoTables
    /\ cache2 = NoCache
    /\ stream = <<>>
    /\ steps = <<0, 0>>
    /\ pageNum = 0
    /\ slice = NoPage
    /\ seen = <<>>

Start == Idle /\ pos = DonePos

Init ==
    /\ numBarangays = num_barangays
    /\ tableRows = 0
    /\ Start

Next ==
    \/ Boot
    \/ GenRow
    \/ GenReturn
    \/ SelectPage
    \/ SelectDashCity
    \/ SelectCity
    \/ SelectYear
    \/ First
    \/ Prev
    \/ Next_
    \/ Last
    \/ GoTo

Spec == Init /\ [][Next]_vars

-----------------------------------------------------------------------------
(* Configurations of the barangay lookup table: the table of the source and *)
(* the same table with one city's entry missing.                            *)

Without(d, key) == [x \in DOMAIN d \ {key} |-> d[x]]

InitConfig ==
    /\ numBarangays \in {num_barangays, Without(num_barangays, "Kidapawan")}
    /\ tableRows = 0
    /\ Start

SpecConfig == InitConfig /\ [][Next]_vars

-----------------------------------------------------------------------------
(* paginate_dataframe on its own: a table of 1..MaxRows rows is paged through *)
(* with the page size of page_all_data, from page 1 to the last page that the *)
(* function reports.                                                          *)

\* lines 538-541: the call for the page after the last one requested
PaginateNext ==
    /\ pageNum = 0 \/ pageNum < slice.total_pages
    /\ pageNum' = pageNum + 1
    /\ slice' = paginate_dataframe(tableRows, PageSize, pageNum + 1)
    /\ seen' = seen \o slice'.df_page
    /\ UNCHANGED <<tableRows, pc, cache, cnt, view, genVars, uiVars, events, numBarangays,
                   run2Vars>>

InitPaginate ==
    /\ numBarangays = num_barangays
    /\ tableRows \in 1..MaxRows
    /\ Start

NextPaginate == PaginateNext

SpecPaginate == InitPaginate /\ [][NextPaginate]_vars

-----------------------------------------------------------------------------
(* One loop step on its own: the step at any position of the loops of        *)
(* generate_all_data, with any draws.                                        *)

\* the positions the loops of the source go through; of the schools of a city and
\* year, whose rows differ by School_ID only, the first MaxSchools public and the
\* first MaxSchools private ones
Positions ==
    UNION {{[tbl |-> t, ci |-> c, year |-> y, i |-> i, j |-> j] :
               i \in {n \in 1..DimI(TableOrder[t], CityNames[c], num_barangays) :
                         TableOrder[t] = "infrastructure" =>
                            \/ n <= MaxSchools
                            \/ /\ n > CITIES[CityNames[c]].schools_public
                               /\ n <= CITIES[CityNames[c]].schools_public + MaxSchools},
               j \in 1..DimJ(TableOrder[t])} :
             t \in 1..Len(TableOrder), c \in 1..Len(CityNames), y \in YEARS}

\* the draw of a step, by its place among the step's uniform and choice draws, that
\* stands in the expression of field f of the appended dict (0: none)
DrawOf(t, f) ==
    CASE t = "enrollment" ->
           (CASE f = "Male" -> 1 [] f = "Female" -> 2 [] f = "Enrollment_Rate" -> 3
              [] OTHER -> 0)
      [] t = "graduates" ->
           (CASE f = "Graduation_Rate" -> 1 [] f = "To_College" -> 2 [] f = "To_Employment" -> 3
              [] f = "To_Vocational" -> 4 [] f = "NEET" -> 5 [] f = "Average_Grade" -> 6
              [] OTHER -> 0)
      [] t = "osy" ->
           (CASE f = "ALS_Enrolled" -> 1 [] f = "Returned_to_School" -> 2
              [] f = "Gender_Male" -> 3 [] f = "Gender_Female" -> 4
              [] OTHER -> 0)
      [] t = "poverty" ->
           (CASE f \in {"FourPs_Beneficiaries", "Poverty_Rate"} -> 1
              [] f = "Scholarship_Recipients" -> 2 [] f = "Feeding_Program" -> 3
              [] f = "Financial_Assistance" -> 4
              [] OTHER -> 0)
      [] t = "infrastructure" ->
           (CASE f \in {"School_Size", "Classrooms", "Classroom_Shortage", "Teacher_Count"} -> 1
              [] f = "Student_Population" -> 2 [] f = "Has_Computer_Lab" -> 3
              [] f = "Has_Internet" -> 4 [] f = "Has_Library" -> 5
              [] f = "Has_Science_Lab" -> 6 [] f = "Teacher_Student_Ratio" -> 7
              [] OTHER -> 0)
      [] t = "incidents" ->
           (CASE f = "Resolved" -> 1 [] f = "Pending" -> 2 [] f = "Escalated" -> 3
              [] f = "Student_Suspended" -> 4 [] f = "Parent_Conference" -> 5
              [] f = "Counseling_Provided" -> 6
              [] OTHER -> 0)
      [] t = "performance" ->
           (CASE f \in {"Average_Score", "Passing_Rate", "High_Performers", "Low_Performers"} -> 1
              [] f = "Class_Size_Avg" -> 2 [] f = "Teacher_Quality_Rating" -> 3
              [] OTHER -> 0)

\* the keys of the dict a step of table t appends
FieldsOf(t) ==
    DimensionFields(t) \cup
    (CASE t = "enrollment" ->
            {"Quarter", "Total_Enrollment", "Elementary", "Junior_High", "Senior_High", "Male",
             "Female", "Public_Schools", "Private_Schools", "Enrollment_Rate"}
       [] t = "graduates" ->
            {"Total_Graduates", "Graduation_Rate", "To_College", "To_Employment",
             "To_Vocational", "NEET", "Average_Grade"}
       [] t = "osy" ->
            {"Total_OSY", "ALS_Enrolled", "Returned_to_School", "Gender_Male", "Gender_Female"}
       [] t = "poverty" ->
            {"Total_Students", "FourPs_Beneficiaries", "Poverty_Rate", "Scholarship_Recipients",
             "Feeding_Program", "Financial_Assistance"}
       [] t = "infrastructure" ->
            {"School_Size", "Student_Population", "Classrooms", "Classroom_Shortage",
             "Has_Computer_Lab", "Has_Internet", "Has_Library", "Has_Science_Lab",
             "Teacher_Count", "Teacher_Student_Ratio"}
       [] t = "incidents" ->
            {"Incident_Count", "Resolved", "Pending", "Escalated", "Student_Suspended",
             "Parent_Conference", "Counseling_Provided"}
       [] t = "performance" ->
            {"Average_Score", "Passing_Rate", "High_Performers", "Low_Performers",
             "Class_Size_Avg", "Teacher_Quality_Rating"})

\* the draw of a step whose outcome is kept in a local variable that later
\* expressions of the step read: the school size of an infrastructure step, which
\* decides base_students (0: none)
SharedDraw(t) == IF t = "infrastructure" THEN 1 ELSE 0

\* the rows the step at position p can append, each with the draws that give it.  A
\* field has the value RowAt gives it at the step's noise, the shared draw and the
\* draw of its own expression, whatever the other draws: the rows are put together
\* from the rows in which all those other draws are at one level
Level(d, i) == IF i = 0 THEN 0 ELSE d.u[i]
RowsAt(fl, p, nb) ==
    LET t == TableOrder[p.tbl]
        shared == SharedDraw(t)
    IN UNION {{[drw |-> d,
                row |-> [f \in DOMAIN own |-> at[d.z][Level(d, shared)][Level(d, own[f])][f]]] :
                 d \in Draws(t)} :
              at \in {[z \in NoiseLevels(t) |->
                         [s \in IF shared = 0 THEN {0} ELSE 0..Grid |->
                            [k \in 0..Grid |->
                               RowAt(fl, p, nb, z, [i \in 1..LevelDraws(t) |->
                                                  IF i = shared THEN s ELSE k])]]]},
              own \in {[f \in FieldsOf(t) |-> DrawOf(t, f)]}}

\* the body of the loops at position pos, applied to the draws it meets
BuildRow ==
    /\ row = NoRow
    /\ \E r \in RowsAt(Float, pos, numBarangays) :
         /\ row' = r.row
         /\ drw' = r.drw
    /\ UNCHANGED <<pc, cache, cnt, view, rng, pos, grp, genRuns, seedCalls, uiVars, events,
                   numBarangays, walkVars, run2Vars>>

InitRows ==
    /\ numBarangays = num_barangays
    /\ tableRows = 0
    /\ pos \in Positions
    /\ Idle

NextRows == BuildRow

SpecRows == InitRows /\ [][NextRows]_vars

-----------------------------------------------------------------------------
(* Two runs of the generator, each in a process of its own with a stream of *)
(* its own, which starts from the entropy of the process.  The processes    *)
(* share nothing but the library they load, and their steps come in any     *)
(* order.                                                                   *)
(*                                                                          *)
(* The library gives draw number n of the stream of a source (a seed, or    *)
(* the entropy of a process): the same draw in every process, and which     *)
(* draw, the model leaves open.  The process that meets a draw first meets  *)
(* any of its levels; stream keeps the draws met, and a process that comes  *)
(* to a draw kept there meets it again.                                     *)
(*                                                                          *)
(* A behaviour is a stretch of the two runs: it starts with neither process *)
(* started, or with both processes inside the loops, about to take the step *)
(* that opens a table for a city or the last step of the loops, and each    *)
(* process takes at most MaxSteps loop steps of it.                         *)

\* the outcomes of the loop step at position p of a process whose stream is at state r,
\* the draws kept being mem: the row appended and the draws kept afterwards.  The step
\* takes the next DrawsPerRow draws of the stream: add_noise draws first in the
\* enrollment and osy steps, then the uniform and choice draws follow in the order of
\* the dict's expressions
StepOutcomes(fl, mem, r, p, nb) ==
    LET t == TableOrder[p.tbl]
        first == DrawsPerRow(t) - LevelDraws(t)
        Key(i) == <<r.src, r.n + i>>
        keys == {Key(i) : i \in 0..(DrawsPerRow(t) - 1)}
        Met(d, i) == IF i < first THEN d.z ELSE d.u[i - first + 1]
        Agrees(d) == \A i \in 0..(DrawsPerRow(t) - 1) :
                        Key(i) \in DOMAIN mem => mem[Key(i)] = Met(d, i)
        Kept(d) == [k \in DOMAIN mem \cup keys |->
                      IF k \in DOMAIN mem THEN mem[k] ELSE Met(d, k[2] - r.n)]
    IN IF keys \cap DOMAIN mem = {}
       THEN {[row |-> c.row, stream |-> Kept(c.drw)] : c \in RowsAt(fl, p, nb)}
       ELSE {[row |-> RowAt(fl, p, nb, d.z, d.u), stream |-> Kept(d)] :
                d \in {e \in Draws(t) : Agrees(e)}}

\* the first process enters the body of generate_all_data
Begin1 ==
    /\ pc = "boot"
    /\ GenBegin
    /\ UNCHANGED <<uiVars, events, numBarangays, walkVars, run2Vars>>

\* the second process enters the body of generate_all_data: line 39 and the empty lists
Begin2 ==
    /\ pc2 = "boot"
    /\ pc2' = "gen"
    /\ rng2' = Seed(rng2, SeedValue)
    /\ pos2' = FirstPos(1)
    /\ row2' = NoRow
    /\ cnt2' = NoRows
    /\ UNCHANGED <<pc, cache, cnt, view, genVars, uiVars, events, numBarangays, walkVars,
                   cache2, stream, steps>>

\* one innermost loop step of the first process
Row1 ==
    /\ pc = "gen"
    /\ pos # DonePos
    /\ steps[1] < MaxSteps
    /\ \E o \in StepOutcomes(Float, stream, rng, pos, numBarangays) :
         /\ row' = o.row
         /\ stream' = o.stream
         /\ cnt' = AppendRow(cnt, o.row)
         /\ grp' = IF <<row.table, row.City, row.Year>> = <<o.row.table, o.row.City, o.row.Year>>
                   THEN grp \cup {InnerKey(o.row)} ELSE {InnerKey(o.row)}
    /\ rng' = [rng EXCEPT !.n = @ + DrawsPerRow(TableOrder[pos.tbl])]
    /\ pos' = NextPos(pos, numBarangays)
    /\ steps' = [steps EXCEPT ![1] = @ + 1]
    /\ UNCHANGED <<drw, pc, cache, genRuns, seedCalls, uiVars, view, events, numBarangays,
                   walkVars, pc2, rng2, pos2, row2, cnt2, cache2>>

\* one innermost loop step of the second process
Row2 ==
    /\ pc2 = "gen"
    /\ pos2 # DonePos
    /\ steps[2] < MaxSteps
    /\ \E o \in StepOutcomes(Float, stream, rng2, pos2, numBarangays) :
         /\ row2' = o.row
         /\ stream' = o.stream
         /\ cnt2' = AppendRow(cnt2, o.row)
    /\ rng2' = [rng2 EXCEPT !.n = @ + DrawsPerRow(TableOrder[pos2.tbl])]
    /\ pos2' = NextPos(pos2, numBarangays)
    /\ steps' = [steps EXCEPT ![2] = @ + 1]
    /\ UNCHANGED <<pc, pc2, cache, cnt, view, genVars, uiVars, events, numBarangays,
                   walkVars, cache2>>

\* the first process returns its tables: line 325, and the decorator of line 35 stores
\* them
Return1 ==
    /\ pc = "gen"
    /\ pos = DonePos
    /\ pc' = "returned"
    /\ cache' = [hit |-> TRUE, value |-> cnt]
    /\ UNCHANGED <<cnt, view, genVars, uiVars, events, numBarangays, walkVars, run2Vars>>

\* the second process returns its tables: line 325, and the decorator of line 35 stores
\* them
Return2 ==
    /\ pc2 = "gen"
    /\ pos2 = DonePos
    /\ pc2' = "returned"
    /\ cache2' = [hit |-> TRUE, value |-> cnt2]
    /\ UNCHANGED <<pc, cache, cnt, view, genVars, uiVars, events, numBarangays, walkVars,
                   rng2, pos2, row2, cnt2, stream, steps>>

\* a process inside the loops of generate_all_data, about to take the step at position
\* p: the state that lines 39..322 have brought it to, as far as the draws met before
\* leave it open
InsideAt(p, nb) ==
    LET LastOf(tb, ci) ==
            [tbl |-> tb, ci |-> ci, year |-> LastYear,
             i |-> DimI(TableOrder[tb], CityNames[ci], nb), j |-> DimJ(TableOrder[tb])]
        \* the position of the step before
        prev == IF p.j > 1 THEN [p EXCEPT !.j = @ - 1]
                ELSE IF p.i > 1 THEN [p EXCEPT !.i = @ - 1, !.j = DimJ(TableOrder[p.tbl])]
                ELSE IF p.year > FirstYear
                     THEN [p EXCEPT !.year = @ - 1,
                                    !.i = DimI(TableOrder[p.tbl], CityNames[p.ci], nb),
                                    !.j = DimJ(TableOrder[p.tbl])]
                ELSE IF p.ci > 1 THEN LastOf(p.tbl, p.ci - 1)
                ELSE LastOf(p.tbl - 1, Len(CityNames))
        Index(s, x) == CHOOSE k \in 1..Len(s) : s[k] = x
        \* the rows appended before the step at position q
        Before(q) ==
            [t \in Tables |-> [c \in Cities |-> [y \in YEARS |->
                LET g == <<Index(TableOrder, t), Index(CityNames, c), y>>
                    at == <<q.tbl, q.ci, q.year>>
                IN IF g = at THEN (q.i - 1) * DimJ(t) + (q.j - 1)
                   ELSE IF \/ g[1] < at[1]
                           \/ g[1] = at[1] /\ g[2] < at[2]
                           \/ g[1] = at[1] /\ g[2] = at[2] /\ g[3] < at[3]
                        THEN DimI(t, c, nb) * DimJ(t)
                        ELSE 0]]]
        \* the draws taken before the step at position q
        DrawsBefore(q) ==
            SumOver([t \in Tables |->
                        FilteredRows(Before(q), t, AllCities, AllYears) * DrawsPerRow(t)],
                    Tables, {})
        last == StepRow(prev, [src |-> SeedValue, n |-> DrawsBefore(prev)])
    IN [rng |-> [src |-> SeedValue, n |-> DrawsBefore(p)],
        pos |-> p,
        row |-> last,
        cnt |-> Before(p),
        grp |-> {InnerKey(RowKey([prev EXCEPT !.i = x[1], !.j = x[2]])) :
                    x \in {y \in (1..prev.i) \X (1..DimJ(TableOrder[prev.tbl])) :
                              y[1] < prev.i \/ y[2] <= prev.j}}]

\* neither process has started; or both are inside the loops, at the first step of a
\* table for a city or at the last step of the loops
InitTwoRuns ==
    LET starts ==
            ({[FirstPos(t) EXCEPT !.ci = c] :
                 t \in 1..Len(TableOrder), c \in 1..Len(CityNames)} \ {FirstPos(1)})
            \cup {[tbl |-> Len(TableOrder), ci |-> Len(CityNames), year |-> LastYear,
                   i |-> DimI(TableOrder[Len(TableOrder)], CityNames[Len(CityNames)],
                              num_barangays),
                   j |-> DimJ(TableOrder[Len(TableOrder)])]}
    IN /\ numBarangays = num_barangays
       /\ tableRows = 0
       /\ \/ Idle /\ pos = DonePos
          \/ \E p \in starts :
               \E s \in {InsideAt(p, num_barangays)} :
                 /\ pc = "gen" /\ pc2 = "gen"
                 /\ cache = NoCache /\ cache2 = NoCache
                 /\ rng = s.rng /\ rng2 = s.rng
                 /\ pos = s.pos /\ pos2 = s.pos
                 /\ row = s.row /\ row2 = s.row
                 /\ cnt = s.cnt /\ cnt2 = s.cnt
                 /\ grp = s.grp
                 /\ drw = NoDraw
                 /\ genRuns = 1
                 /\ seedCalls = 1
                 /\ stream = <<>>
                 /\ steps = <<0, 0>>
                 /\ page = "home"
                 /\ dashCity = CityNames[1]
                 /\ selCity = AllCities
                 /\ selYear = AllYears
                 /\ page_numbers = [t \in Tables |-> 1]
                 /\ view = [page |-> "none"]
                 /\ events = 0
                 /\ pageNum = 0
                 /\ slice = NoPage
                 /\ seen = <<>>

NextTwoRuns == Begin1 \/ Begin2 \/ Row1 \/ Row2 \/ Return1 \/ Return2

SpecTwoRuns == InitTwoRuns /\ [][NextTwoRuns]_vars

-----------------------------------------------------------------------------
(* Properties *)

\* the next loop step starts another (table, city, year) group, or the loops are over
GroupComplete == pc = "gen" /\ row.table # "none" /\ pos.i = 1 /\ pos.j = 1

\* len(datasets[t])
Rows(c, t) == FilteredRows(c, t, AllCities, AllYears)

CountFields(t) ==
    CASE t = "enrollment" -> {"Total_Enrollment", "Elementary", "Junior_High", "Senior_High",
                              "Male", "Female", "Public_Schools", "Private_Schools"}
      [] t = "graduates" -> {"Total_Graduates", "To_College", "To_Employment", "To_Vocational",
                             "NEET"}
      [] t = "osy" -> {"Total_OSY", "ALS_Enrolled", "Returned_to_School", "Gender_Male",
                       "Gender_Female"}
      [] t = "poverty" -> {"Total_Students", "FourPs_Beneficiaries", "Scholarship_Recipients",
                           "Feeding_Program", "Financial_Assistance"}
      [] t = "infrastructure" -> {"Student_Population", "Classrooms", "Classroom_Shortage",
                                  "Teacher_Count"}
      [] t = "incidents" -> {"Incident_Count", "Resolved", "Pending", "Escalated",
                             "Student_Suspended", "Parent_Conference", "Counseling_Provided"}
      [] t = "performance" -> {"High_Performers", "Low_Performers", "Class_Size_Avg"}
      [] OTHER -> {}

\* C1: in every row of every table every count field is >= 0, High_Performers and
\* Low_Performers and the subtraction-derived Female, Private_Schools and Gender_Female
\* included, for every city, year, grade, subject and every draw.
C1_CountsNonNegative == \A f \in CountFields(row.table) : row[f] >= 0

\* C2: if a city is missing from the barangay lookup table, generation aborts: no poverty
\* row is produced for that city from a substituted default and no tables are returned.
C2_MissingCityAborts ==
    /\ row.table = "poverty" => row.City \in DOMAIN numBarangays
    /\ pc = "ui" => Cities \subseteq DOMAIN numBarangays

\* the combinations of inner dimension values C3 names for a table and a city
ExpectedKeys(t, city) ==
    CASE t = "enrollment" -> {<<m>> : m \in 1..12}
      [] t = "graduates" ->
           {"STEM", "ABM", "HUMSS", "TVL", "GAS"} \X {"Public", "Private"}
      [] t = "osy" ->
           {"6-11", "12-15", "16-18", "19-24"} \X
           {"Financial", "Family_Obligations", "Distance", "Lack_Interest", "Health",
            "Marriage", "Work"}
      [] t = "poverty" -> {<<b>> : b \in 1..num_barangays[city]}
      [] t = "incidents" ->
           (1..12) \X {"Bullying", "Fighting", "Truancy", "Substance", "Vandalism", "Theft",
                       "Cyberbullying", "Others"}
      [] t = "performance" ->
           {GRADE_LEVELS[g] : g \in 1..12} \X
           {"Math", "Science", "English", "Filipino", "History", "Arts"}

\* C3: each table's row count is the product of its dimension sizes (enrollment 600,
\* graduates 500, osy 1400, incidents 4800, performance 3600, poverty 10 times the sum of
\* the barangay counts), and each combination of dimension values is in exactly one row:
\* the rows of a (city, year) group carry exactly the expected combinations, once each.
C3_RowCounts ==
    /\ (GroupComplete /\ row.table # "infrastructure") =>
          /\ grp = ExpectedKeys(row.table, row.City)
          /\ cnt[row.table][row.City][row.Year] = Cardinality(grp)
    /\ pc = "ui" =>
          /\ Rows(cache.value, "enrollment") = 600
          /\ Rows(cache.value, "graduates") = 500
          /\ Rows(cache.value, "osy") = 1400
          /\ Rows(cache.value, "incidents") = 4800
          /\ Rows(cache.value, "performance") = 3600
          /\ Rows(cache.value, "poverty") = 10 * (26 + 20 + 21 + 27 + 40)
          /\ \A t \in Tables \ {"infrastructure"} : \A c \in Cities : \A y \in YEARS :
                cache.value[t][c][y] = Cardinality(ExpectedKeys(t, c))

C3_Witness ==
    /\ pc = "ui"
    /\ view.page = "home"
    /\ view.records["enrollment"] = 600
    /\ view.records["poverty"] = 1340

C5_RatesAndScoreInRange ==
    /\ row.table = "enrollment" => 0 <= row.Enrollment_Rate /\ row.Enrollment_Rate <= 1000
    /\ row.table = "graduates" => 0 <= row.Graduation_Rate /\ row.Graduation_Rate <= 1000
    /\ row.table = "poverty" => 0 <= row.Poverty_Rate /\ row.Poverty_Rate <= 1000
    /\ row.table = "infrastructure" =>
          0 <= row.Teacher_Student_Ratio /\ row.Teacher_Student_Ratio <= 10000
    /\ row.table = "performance" =>
          /\ 0 <= row.Passing_Rate /\ row.Passing_Rate <= 1000
          /\ 4000 <= row.Average_Score /\ row.Average_Score <= 10000

C5_Witness ==
    /\ row.table = "performance"
    /\ row.Average_Score < 5000
    /\ row.Passing_Rate = 600
    /\ drw.u[1] = 0

\* C6: filtering by city and/or year on the page functions never changes the generated
\* tables: after any sequence of filter selections and page navigations the tables the
\* script holds are the generated ones, and with 'All Cities' and 'All Years' the page
\* shows every table's full row count.
C6_FilteringKeepsTables ==
    pc = "ui" =>
       /\ cnt = cache.value
       /\ \A t \in Tables : Rows(cnt, t) > 0
       /\ (page = "all" /\ selCity = AllCities /\ selYear = AllYears) =>
             \A t \in Tables : view.records[t] = Rows(cache.value, t)

C6_Witness ==
    /\ pc = "ui"
    /\ page = "all"
    /\ selCity = "Tacurong"
    /\ selYear = 2020
    /\ view.records["enrollment"] = 12
    /\ Rows(cnt, "enrollment") = 600

\* C7: a city's infrastructure rows number (schools_public + schools_private) * 10, and
\* within each city and year exactly schools_public rows are 'Public' and exactly
\* schools_private rows are 'Private'.
C7_InfrastructureRows ==
    /\ (GroupComplete /\ row.table = "infrastructure") =>
          /\ Cardinality({key \in grp : key[2] = "Public"}) = CITIES[row.City].schools_public
          /\ Cardinality({key \in grp : key[2] = "Private"}) = CITIES[row.City].schools_private
          /\ cnt["infrastructure"][row.City][row.Year] = Cardinality(grp)
    /\ pc = "ui" =>
          \A c \in Cities :
             FilteredRows(cache.value, "infrastructure", c, AllYears)
                = (CITIES[c].schools_public + CITIES[c].schools_private) * 10

C7_Witness ==
    /\ pc = "ui"
    /\ FilteredRows(cache.value, "infrastructure", "Tacurong", AllYears) = 1010
    /\ FilteredRows(cache.value, "infrastructure", "General Santos", 2015) = 334

\* C8: every one of the seven categories returned by generate_all_data has at least
\* 1000 rows.
C8_ThousandRowsPerCategory ==
    pc = "ui" => \A t \in Tables : Rows(cache.value, t) >= 1000

\* the factors and quarters as C9 states them
ClaimYearFactor(year) ==
    CASE year < 2020 -> 100
      [] year = 2020 -> 92
      [] year = 2021 -> 88
      [] year = 2022 -> 95
      [] year = 2023 -> 98
      [] year = 2024 -> 102
ClaimMonthFactor(month) ==
    CASE month \in 6..8 -> 110
      [] month \in (9..12) \cup {1} -> 100
      [] month \in 2..5 -> 95
ClaimQuarter(month) ==
    CASE month \in 1..3 -> "Q1"
      [] month \in 4..6 -> "Q2"
      [] month \in 7..9 -> "Q3"
      [] month \in 10..12 -> "Q4"

\* Total_Enrollment as C9 states it: the truncation of max(0, v + noise) for the double
\* v = base_enrollment * year factor * month factor and noise = 0.03 * v * z
ClaimTotal(fl, city, year, month, z) ==
    LET base == CITIES[city].base_enrollment
        v == fl.mul[fl.mul[fl.int[base], fl.dec[ClaimYearFactor(year), 100]],
                  fl.dec[ClaimMonthFactor(month), 100]]
    IN NoisyCount(fl, base * ClaimYearFactor(year), ClaimMonthFactor(month), 1000, 10, v, 3, z)

\* C9: in every enrollment row Quarter is Q1 for months 1-3, Q2 for 4-6, Q3 for 7-9, Q4
\* for 10-12, and Total_Enrollment is the truncation of max(0, v + noise) with
\* v = base_enrollment * year factor * month factor and noise = 0.03 * v * z; the row
\* (Tacurong, 2020, 7) has Quarter Q3 and v = 28000 * 0.92 * 1.1 = 28336.
C9_EnrollmentRow ==
    row.table = "enrollment" =>
       /\ row.Quarter = ClaimQuarter(row.Month)
       /\ row.Total_Enrollment = ClaimTotal(Float, row.City, row.Year, row.Month, drw.z)
       /\ (row.City = "Tacurong" /\ row.Year = 2020 /\ row.Month = 7) =>
             /\ row.Quarter = "Q3"
             /\ drw.z = 0 => row.Total_Enrollment = 28336

C9_Witness ==
    /\ row.table = "enrollment"
    /\ row.City = "Tacurong"
    /\ row.Year = 2020
    /\ row.Month = 7
    /\ drw.z = 0
    /\ row.Quarter = "Q3"
    /\ row.Total_Enrollment = 28336

\* draws one generation of the tables c consumes
DrawsOf(c) == SumOver([t \in Tables |-> Rows(c, t) * DrawsPerRow(t)], Tables, {})

\* C10: across any sequence of renders the body of generate_all_data runs at most once:
\* the stream is seeded exactly once, before the first draw, and every later call from
\* main returns the memoized tables without reseeding or drawing again, so that every
\* render sees the same tables.
C10_GeneratedOnce ==
    /\ genRuns <= 1
    /\ seedCalls = genRuns
    /\ rng.n > 0 => rng.src = SeedValue
    /\ pc = "ui" =>
          /\ CacheHit(cache)
          /\ genRuns = 1
          /\ rng.n = DrawsOf(cache.value)
          /\ view.records = Render(cache.value, page, dashCity, selCity, selYear,
                                   page_numbers).records

C10_Witness ==
    /\ pc = "ui"
    /\ events = MaxEvents
    /\ genRuns = 1
    /\ seedCalls = 1
    /\ rng.n = 119170

\* C11: on the All Data Tables page the CSV offered for a category holds one record
\* for every row of the category that passes the city and year filters, as many as
\* the Total Records shown, whatever the category's page number; it is never cut to
\* the rows of the displayed page.
C11_CsvHoldsFilteredRows ==
    (pc = "ui" /\ view.page = "all") =>
       \A t \in DOMAIN view.csv :
          /\ view.csv[t].lines - 1 = FilteredRows(cache.value, t, selCity, selYear)
          /\ view.csv[t].lines - 1 = view.pages[t].total_rows
          /\ view.csv[t].lines - 1 >= view.pages[t].shown

C11_Witness ==
    /\ pc = "ui"
    /\ view.page = "all"
    /\ selCity = "Isulan"
    /\ "graduates" \in DOMAIN view.csv
    /\ page_numbers["graduates"] = 2
    /\ view.pages["graduates"].shown = 15
    /\ view.csv["graduates"].lines = 101

ClaimNames ==
    {"enrollment", "graduates", "osy", "poverty", "infrastructure", "incidents", "performance"}
ClaimIds ==
    {<<"enrollment", "enrollment_data_table", "enrollment_data.csv">>,
     <<"graduates", "graduates_data_table", "graduates_data.csv">>,
     <<"osy", "osy_data_table", "osy_data.csv">>,
     <<"poverty", "poverty_data_table", "poverty_data.csv">>,
     <<"infrastructure", "infrastructure_data_table", "infrastructure_data.csv">>,
     <<"incidents", "incidents_data_table", "incidents_data.csv">>,
     <<"performance", "performance_data_table", "performance_data.csv">>}

\* C12: the mapping generate_all_data returns has exactly the seven keys enrollment,
\* graduates, osy, poverty, infrastructure, incidents and performance, and the All
\* Data Tables page builds from these same names the table id <name>_data_table and
\* the CSV file name <name>_data.csv of every category it renders; a run that
\* renders the whole page shows all seven.
C12_SevenStableNames ==
    /\ CacheHit(cache) => DOMAIN cache.value = ClaimNames
    /\ (pc = "ui" /\ view.page = "all") =>
          /\ \A t \in DOMAIN view.table_id :
                \E id \in ClaimIds : id[1] = t /\ id[2] = view.table_id[t]
          /\ \A t \in DOMAIN view.csv :
                \E id \in ClaimIds : id[1] = t /\ id[3] = view.csv[t].file_name
          /\ view.error = {} =>
                DOMAIN view.table_id = ClaimNames /\ DOMAIN view.csv = ClaimNames

C12_Witness ==
    /\ pc = "ui"
    /\ view.page = "all"
    /\ view.error = {}
    /\ DOMAIN cache.value = ClaimNames
    /\ DOMAIN view.csv = ClaimNames
    /\ view.table_id["osy"] = "osy_data_table"
    /\ view.csv["osy"].file_name = "osy_data.csv"

\* C13: after any sequence of filter changes and page navigation on the All Data
\* Tables page the stored page number p of every category satisfies
\* 1 <= p <= total_pages of the filtered table, no number input is rejected, the
\* displayed slice is not empty and start_idx + 1 <= end_idx <= total_rows.
C13_PageNumberInRange ==
    (pc = "ui" /\ view.page = "all") =>
       /\ view.error = {}
       /\ \A t \in DOMAIN view.pages :
             /\ 1 <= page_numbers[t]
             /\ page_numbers[t] <= view.pages[t].total_pages
             /\ view.pages[t].shown >= 1
             /\ view.pages[t].start_idx + 1 <= view.pages[t].end_idx
             /\ view.pages[t].end_idx <= view.pages[t].total_rows

\* C14: for a table of N >= 1 rows and page size 15 paginate_dataframe reports
\* total_pages = ceil(N / 15); the slices of pages 1, 2, ... up to total_pages follow
\* one another without gap or overlap in the table's row order and together hold each
\* of the N rows exactly once; every page but the last has 15 rows and the last has
\* N - 15 * (total_pages - 1) rows, between 1 and 15.
C14_PagesPartitionTable ==
    pageNum >= 1 =>
       /\ slice.total_rows = tableRows
       /\ 15 * slice.total_pages >= tableRows
       /\ 15 * (slice.total_pages - 1) < tableRows
       /\ pageNum <= slice.total_pages
       /\ slice.df_page = [i \in 1..Len(slice.df_page) |-> 15 * (pageNum - 1) + i - 1]
       /\ seen = [i \in 1..Len(seen) |-> i - 1]
       /\ pageNum < slice.total_pages => Len(slice.df_page) = 15
       /\ pageNum = slice.total_pages =>
             /\ Len(slice.df_page) = tableRows - 15 * (slice.total_pages - 1)
             /\ Len(slice.df_page) \in 1..15
             /\ Len(seen) = tableRows

C14_Witness ==
    /\ tableRows = 47
    /\ pageNum = 4
    /\ slice.total_pages = 4
    /\ slice.df_page = <<45, 46>>
    /\ Len(seen) = 47

=============================================================================
